---- MODULE Spec2Model ----
(***************************************************************************)
(* Model of the format-selection, fallback and retry logic of the YouTube  *)
(* downloader:                                                             *)
(*   core/downloaders/transcriptions/core.py        (scoring, selection)   *)
(*   core/downloaders/transcriptions/core_CLI.py    (fallback loops)       *)
(*   core/downloaders/transcriptions/yt_downloads_utils.py (retry loops)   *)
(* The external collaborators (yt-dlp, the transcript API) are modelled as *)
(* nondeterministic outcomes of each call.                                 *)
(***************************************************************************)
EXTENDS Integers, Sequences, FiniteSets, TLC

\* ------------------------------------------------------------------ bounds

\* longest format list a video offers
MaxFormats == 3
\* largest max_format_attempts argument of the fallback loops
MaxFormatAttempts == 3
\* largest network.max_retries inside a fallback run
MaxFallbackRetries == 1
\* largest max_retries of a download function called on its own
MaxRetries == 3
\* largest initial retry_delay of a download function called on its own
MaxDelay == 2
\* longest format list handed to a selection function called on its own
MaxCandidates == 3
\* most calls of a selection function on the same list and preferences
MaxCalls == 2
\* most transcripts a video has
MaxTracks == 3
\* invocations of the fallback loops in progress at the same time
NumInvocations == 2
\* most background tasks queued
MaxTasks == 2
\* most job_result requests answered
MaxResponses == 2

\* ------------------------------------------------------- python values

\* Python's None
NoneVal == "<None>"

\* Python's None where a format dict is expected
NoFormat == [format_id |-> NoneVal]

\* bytes per MB in the audio size score (file_size / 1024 / 1024)
AudioSizeUnit == 1048576
\* bytes per score point in the video size score (file_size / 1024 / 1024 / 10)
VideoSizeUnit == 10485760

\* str.lower() on the words that occur in format notes and extensions
PyLower(w) ==
  CASE w = "Medium" -> "medium"
    [] w = "HIGH"   -> "high"
    [] w = "M4A"    -> "m4a"
    [] w = "MP4"    -> "mp4"
    [] OTHER        -> w

\* Python's None in a size field (filesize, filesize_approx)
NoSize == -1

\* float('inf'), the file size of a format whose size is unknown
InfSize == -2

\* a format note is a sequence of words, the empty sequence for a missing or
\* empty note; (note or '').lower()
LowerNote(note) == [i \in 1..Len(note) |-> PyLower(note[i])]

\* note == 'word', in place of 'word' in note
NoteIs(word, note) == note = <<word>>

\* 'word' in note
InNote(word, note) == \E i \in 1..Len(note) : note[i] = word

\* list.index(x) (0-based) for x in list
PyIndex(list, x) ==
  (CHOOSE i \in 1..Len(list) : list[i] = x /\ \A j \in 1..(i-1) : list[j] # x) - 1

\* seq[:k], k possibly negative or larger than the length
PySliceTo(seq, k) ==
  LET n == IF k >= 0 THEN (IF k < Len(seq) THEN k ELSE Len(seq))
           ELSE (IF Len(seq) + k > 0 THEN Len(seq) + k ELSE 0)
  IN SubSeq(seq, 1, n)

\* seq[k:], 0 <= k
PySliceFrom(seq, k) == SubSeq(seq, k + 1, Len(seq))

PyMin(a, b) == IF a < b THEN a ELSE b

PyMax(a, b) == IF a > b THEN a ELSE b

\* "height - 720" without the abs()
NoAbs(a) == a

PyAbs(a) == IF a < 0 THEN -a ELSE a

\* ------------------------------------------------------- format filtering

is_audio_format(fmt) == fmt.vcodec = "none" /\ fmt.acodec # "none"

is_video_format(fmt) == fmt.vcodec # "none" /\ fmt.acodec = "none"

is_combined_format(fmt) == fmt.vcodec # "none" /\ fmt.acodec # "none"

\* a comprehension that forgets its "if is_audio_format(f)"
KeepAllFormats(formats) == formats

\* [f for f in formats if pred(f)]
RECURSIVE FilterAudio(_)
FilterAudio(formats) ==
  IF formats = <<>> THEN <<>>
  ELSE (IF is_audio_format(Head(formats)) THEN <<Head(formats)>> ELSE <<>>)
       \o FilterAudio(Tail(formats))

RECURSIVE FilterVideo(_)
FilterVideo(formats) ==
  IF formats = <<>> THEN <<>>
  ELSE (IF is_video_format(Head(formats)) THEN <<Head(formats)>> ELSE <<>>)
       \o FilterVideo(Tail(formats))

RECURSIVE FilterCombined(_)
FilterCombined(formats) ==
  IF formats = <<>> THEN <<>>
  ELSE (IF is_combined_format(Head(formats)) THEN <<Head(formats)>> ELSE <<>>)
       \o FilterCombined(Tail(formats))

\* ---------------------------------------------------------------- scoring

get_quality_score(fmt, preferred_quality, is_audio) ==
  IF is_audio THEN
    LET note == LowerNote(fmt.format_note) IN
    IF preferred_quality = "high" /\ InNote("high", note) THEN 100
    ELSE IF preferred_quality = "high" /\ InNote("medium", note) THEN 80
    ELSE IF preferred_quality = "high" /\ InNote("low", note) THEN 60
    ELSE IF preferred_quality = "medium" /\ InNote("medium", note) THEN 100
    ELSE IF preferred_quality = "medium" /\ InNote("high", note) THEN 90
    ELSE IF preferred_quality = "medium" /\ InNote("low", note) THEN 70
    ELSE IF preferred_quality = "low" /\ InNote("low", note) THEN 100
    ELSE IF preferred_quality = "low" /\ InNote("medium", note) THEN 80
    ELSE IF preferred_quality = "low" /\ InNote("high", note) THEN 60
    ELSE 50
  ELSE
    LET height == fmt.height IN
    IF preferred_quality = "720p" /\ height = 720 THEN 100
    ELSE IF preferred_quality = "720p" /\ height = 480 THEN 90
    ELSE IF preferred_quality = "720p" /\ height = 1080 THEN 85
    ELSE IF preferred_quality = "720p" /\ height = 360 THEN 70
    ELSE IF preferred_quality = "1080p" /\ height = 1080 THEN 100
    ELSE IF preferred_quality = "1080p" /\ height = 720 THEN 90
    ELSE IF preferred_quality = "1080p" /\ height = 480 THEN 80
    ELSE IF preferred_quality = "480p" /\ height = 480 THEN 100
    ELSE IF preferred_quality = "480p" /\ height = 360 THEN 90
    ELSE IF preferred_quality = "480p" /\ height = 720 THEN 80
    ELSE PyMax(50 - (PyAbs(height - 720) \div 100), 10)

get_format_score(fmt, preferred_formats) ==
  LET ext == PyLower(fmt.ext) IN
  IF \E i \in 1..Len(preferred_formats) : preferred_formats[i] = ext
  THEN 100 - PyIndex(preferred_formats, ext) * 10
  ELSE 10

\* the approximate size tried before the exact one
get_best_filesize_approx_first(fmt) ==
  IF fmt.filesize_approx # NoSize /\ fmt.filesize_approx > 0 THEN fmt.filesize_approx
  ELSE IF fmt.filesize # NoSize /\ fmt.filesize > 0 THEN fmt.filesize
  ELSE InfSize

get_best_filesize(fmt) ==
  IF fmt.filesize # NoSize /\ fmt.filesize > 0 THEN fmt.filesize
  ELSE IF fmt.filesize_approx # NoSize /\ fmt.filesize_approx > 0
       THEN fmt.filesize_approx
  ELSE InfSize

\* size_score = 100 if unknown else max(0, 100 - file_size / unit), kept exact
\* as unit * size_score (an integer number of bytes)
size_score_scaled(fmt, unit) ==
  LET file_size == get_best_filesize(fmt) IN
  IF file_size = InfSize THEN 100 * unit ELSE PyMax(0, 100 * unit - file_size)

\* the three scores added up without the weights
total_score_unweighted(fmt, preferences, is_audio) ==
  LET unit == IF is_audio THEN AudioSizeUnit ELSE VideoSizeUnit
      q == get_quality_score(fmt, preferences.preferred_quality, is_audio)
      f == get_format_score(fmt, preferences.preferred_formats)
      s == size_score_scaled(fmt, unit)
  IN <<q + f + (s \div unit), s % unit>>

\* total_score = quality_score * 3 + format_score * 2 + size_score * 1, kept
\* exact as <<whole points, remaining bytes>> (bytes < unit)
total_score(fmt, preferences, is_audio) ==
  LET unit == IF is_audio THEN AudioSizeUnit ELSE VideoSizeUnit
      q == get_quality_score(fmt, preferences.preferred_quality, is_audio)
      f == get_format_score(fmt, preferences.preferred_formats)
      s == size_score_scaled(fmt, unit)
  IN <<q * 3 + f * 2 + (s \div unit), s % unit>>

\* a >= b on total scores
ScoreGE(a, b) == a[1] > b[1] \/ (a[1] = b[1] /\ a[2] >= b[2])

\* scored_formats.append({...}) for every fmt, in input order
ScoreAll(fmts, preferences, is_audio) ==
  [i \in 1..Len(fmts) |->
     [format |-> fmts[i],
      total_score |-> total_score(fmts[i], preferences, is_audio),
      quality_score |-> get_quality_score(fmts[i], preferences.preferred_quality, is_audio),
      format_score |-> get_format_score(fmts[i], preferences.preferred_formats),
      size_score |-> size_score_scaled(fmts[i],
                        IF is_audio THEN AudioSizeUnit ELSE VideoSizeUnit),
      file_size |-> get_best_filesize(fmts[i])]]

\* one step of list.sort(key=total_score, reverse=True): x is placed after every
\* entry whose score is >= its own (Python's sort is stable, also reversed)
RECURSIVE InsertDesc(_, _)
InsertDesc(sorted, x) ==
  IF sorted = <<>> THEN <<x>>
  ELSE IF ScoreGE(Head(sorted).total_score, x.total_score)
       THEN <<Head(sorted)>> \o InsertDesc(Tail(sorted), x)
       ELSE <<x>> \o sorted

RECURSIVE SortDesc(_)
SortDesc(scored) ==
  IF scored = <<>> THEN <<>>
  ELSE \* the entries before the last are sorted (once), then the last is placed
       CHOOSE r \in { InsertDesc(s, scored[Len(scored)]) :
                        s \in { SortDesc(SubSeq(scored, 1, Len(scored) - 1)) } } : TRUE

\* scored_formats after "scored_formats.sort(key=..., reverse=True)"
Scored(fmts, preferences, is_audio) == SortDesc(ScoreAll(fmts, preferences, is_audio))

\* a selection that skips the ranking: the first format as listed
first_listed(fmts, preferences, is_audio) ==
  IF fmts # <<>> THEN fmts[1] ELSE NoFormat

\* smart_audio_selection / smart_video_selection: the first entry of
\* scored_formats[:max_attempts], else the first input format, else None
smart_selection(fmts, preferences, is_audio) ==
  LET scored == Scored(fmts, preferences, is_audio)
      top == PySliceTo(scored, preferences.max_fallback_attempts)
  IN IF top # <<>> THEN top[1].format
     ELSE IF fmts # <<>> THEN fmts[1]
     ELSE NoFormat

smart_audio_selection(audio_formats, preferences) ==
  smart_selection(audio_formats, preferences, TRUE)

smart_video_selection(video_formats, preferences) ==
  smart_selection(video_formats, preferences, FALSE)

\* "preferences['preferred_quality'] = quality_override" without the copy: the
\* caller's dict is the one written to
OverrideInPlace(preferences, quality_override) ==
  LET changed == [preferences EXCEPT !.preferred_quality = quality_override]
  IN IF quality_override # NoneVal
     THEN [local |-> changed, callers |-> changed]
     ELSE [local |-> preferences, callers |-> preferences]

\* "if quality_override: preferences = preferences.copy();
\*  preferences['preferred_quality'] = quality_override": the preferences the
\* function goes on with (local) and the caller's dict afterwards (callers)
OverridePreferences(preferences, quality_override) ==
  IF quality_override # NoneVal
  THEN [local |-> [preferences EXCEPT !.preferred_quality = quality_override],
        callers |-> preferences]
  ELSE [local |-> preferences, callers |-> preferences]

\* the common body of the select_* functions after the filter: (selected, list),
\* with the sorted scored_formats of the selection and the caller's preferences
\* dict as the call leaves it
select_from(media_formats, preferences, quality_override, is_audio) ==
  LET o == OverridePreferences(preferences, quality_override)
  IN IF media_formats = <<>>
     THEN [selected |-> NoFormat, list |-> <<>>, scored |-> <<>>,
           preferences |-> preferences]
     ELSE [selected |-> smart_selection(media_formats, o.local, is_audio),
           list |-> media_formats,
           scored |-> Scored(media_formats, o.local, is_audio),
           preferences |-> o.callers]

\* select_default_audio / select_default_video: (selected, list)
select_default(formats, preferences, quality_override, is_audio) ==
  select_from(IF is_audio THEN FilterAudio(formats) ELSE FilterVideo(formats),
              preferences, quality_override, is_audio)

select_default_audio(formats, preferences, quality_override) ==
  select_default(formats, preferences, quality_override, TRUE)

select_default_video(formats, preferences, quality_override) ==
  select_default(formats, preferences, quality_override, FALSE)

\* select_combined_video_audio: smart_video_selection over the combined formats
select_combined_video_audio(formats, preferences, quality_override) ==
  select_from(FilterCombined(formats), preferences, quality_override, FALSE)

\* ------------------------------------------------------------------ state

VARIABLES
  formats,             \* info["formats"], as yt-dlp returned it
  kind,                \* "audio" / "video": the download requested (--audio, --video-only);
                       \* "direct": a download function called on its own
  prefs,               \* config quality_preferences of that kind
  quality_override,    \* args.quality
  max_format_attempts, \* argument of download_*_with_fallback
  max_retries,         \* network.max_retries / argument max_retries
  retry_delay,         \* network.retry_delay_seconds / argument retry_delay
  pc,                  \* where the run is
  default_fmt,         \* default_audio / default_video
  media_list,          \* audio_list / video_list
  attempt,             \* loop variable of the fallback loop
  handed,              \* format ids passed to download_audio / download_video, in order
  outcomes,            \* how each of those calls ended, in order
  result,              \* what download_*_with_fallback returned
  escaped,             \* an exception left download_*_with_fallback
  success_count,       \* process_single_video's success_count
  fn,                  \* the download function running
  retry_attempt,       \* loop variable of its retry loop
  delay,               \* its local retry_delay
  sleeps,              \* time.sleep() arguments of the running call, in order
  ops,                 \* tries of the external operation in the running call
  last_error,          \* str(e) of the latest failed try of the running call
  dl,                  \* how the running call ended
  calls,               \* tries of the external operation in the whole run
  selector,            \* download_video_with_audio: index of the format selector
  signalled,           \* download_transcript: the first TranscriptsDisabled or
                       \* NoTranscriptFound the transcript API raised in this call
  evaluations,         \* the selection calls a caller made so far, in order: the
                       \* arguments and the results of each
  transcript_list,     \* what _get_transcript_list(video_id) gives: the video's
                       \* transcripts in the API's order, or an exception
  preferred_language,  \* argument of print_and_select_default_transcript
  config_languages,    \* config transcripts.preferred_languages
  rows,                \* list_transcript_metadata(video_id)
  default_transcript,  \* what print_and_select_default_transcript returned
  frames,              \* the local variables of each running invocation of
                       \* download_*_with_fallback and of the download function it calls
  cells,               \* the storage the running invocations keep retry_delay in
  scripts,             \* what the external downloader answers each invocation, call by call
  tasks,               \* background_task's Task / CompletedTask rows, by task_id
  files,               \* MEDIA_ROOT/downloads/audio, oldest file first
  responses            \* the responses job_result gave so far, in order

vars == <<formats, kind, prefs, quality_override, max_format_attempts, max_retries,
          retry_delay, pc, default_fmt, media_list, attempt, handed, outcomes, result,
          escaped, success_count, fn, retry_attempt, delay, sleeps, ops, last_error, dl, calls,
          selector, signalled, evaluations, transcript_list, preferred_language,
          config_languages, rows, default_transcript, frames, cells, scripts, tasks, files,
          responses>>

resolver_vars == <<transcript_list, preferred_language, config_languages, rows,
                   default_transcript>>

concurrent_vars == <<frames, cells, scripts>>

job_vars == <<tasks, files, responses>>

inputs == <<formats, kind, prefs, quality_override, max_format_attempts, max_retries,
            retry_delay>>

fallback_vars == <<default_fmt, media_list, attempt, handed, outcomes, result,
                   escaped, success_count>>

\* ----------------------------------------------------------------- inputs

Fmt(id, ext, vcodec, acodec, note, height, filesize, approx) ==
  [format_id |-> id, ext |-> ext, vcodec |-> vcodec, acodec |-> acodec,
   format_note |-> note, height |-> height, filesize |-> filesize,
   filesize_approx |-> approx]

\* the formats a video may offer (format ids are unique within one video)
Catalogue ==
  { Fmt("139", "m4a", "none", "mp4a", <<"low">>, 0, 1048576, NoSize),
    Fmt("140", "M4A", "none", "mp4a", <<"Medium">>, 0, 3145728, NoSize),
    Fmt("251", "webm", "none", "opus", <<"medium">>, 0, NoSize, 3500000),
    Fmt("135", "mp4", "avc1", "none", <<"480p">>, 480, 20971520, NoSize),
    Fmt("248", "webm", "vp9", "none", <<"1080p">>, 1080, NoSize, NoSize) }

\* lists of distinct formats, up to MaxFormats long
FormatLists ==
  UNION { { s \in [1..n -> Catalogue] : \A i, j \in 1..n : i # j => s[i] # s[j] }
          : n \in 0..MaxFormats }

AudioPrefs ==
  [preferred_quality : {"medium", "low"},
   preferred_formats : {<<"mp3", "m4a", "webm">>},
   max_fallback_attempts : {1, 3}]

VideoPrefs ==
  [preferred_quality : {"720p", "1080p"},
   preferred_formats : {<<"mp4", "webm", "mkv">>},
   max_fallback_attempts : {1, 3}]

\* str(e) of the errors the external calls raise
Errors == {"HTTP Error 403", "timed out"}

NoCall == [how |-> "none"]

\* download_*_with_fallback has not returned
NotReturned == [how |-> "none"]

\* "return True" / "return False": a bare bool
ReturnBool(b) == [how |-> "return", success |-> b]

\* the fallback loop's state before download_*_with_fallback is entered
FallbackIdle ==
  /\ default_fmt = NoFormat
  /\ media_list = <<>>
  /\ attempt = 0
  /\ handed = <<>>
  /\ outcomes = <<>>
  /\ result = NotReturned
  /\ escaped = FALSE
  /\ success_count = 0

\* a download function's state before it is called
DownloadIdle ==
  /\ retry_attempt = 0
  /\ sleeps = <<>>
  /\ ops = 0
  /\ last_error = NoneVal
  /\ dl = NoCall
  /\ calls = 0
  /\ selector = 0
  /\ signalled = [raised |-> FALSE]
  /\ evaluations = <<>>

\* print_and_select_default_transcript has not been called
ResolverIdle ==
  /\ transcript_list = [how |-> "none"]
  /\ preferred_language = NoneVal
  /\ config_languages = <<>>
  /\ rows = <<>>
  /\ default_transcript = [how |-> "none"]

\* no invocation is running
ConcurrentIdle ==
  /\ frames = <<>>
  /\ cells = <<>>
  /\ scripts = <<>>

\* no task was queued and the media directory is empty
JobsIdle ==
  /\ tasks = <<>>
  /\ files = <<>>
  /\ responses = <<>>

\* process_single_video asked for one kind of media (core_CLI.py step 3 on),
\* under a configuration with max_fallback_attempts >= 1 and max_retries >= 0
Init ==
  /\ formats \in FormatLists
  /\ kind \in {"audio", "video"}
  /\ prefs \in (IF kind = "audio" THEN AudioPrefs ELSE VideoPrefs)
  /\ quality_override \in {NoneVal, "720p"}
  /\ max_format_attempts \in 0..MaxFormatAttempts
  /\ max_retries \in 0..MaxFallbackRetries
  /\ retry_delay = 2
  /\ pc = "select"
  /\ FallbackIdle
  /\ fn = NoneVal
  /\ delay = retry_delay
  /\ DownloadIdle
  /\ ResolverIdle
  /\ ConcurrentIdle
  /\ JobsIdle

\* ------------------------------------------- process_single_video, step 3

SelectDefault ==
  /\ pc = "select"
  /\ \E r \in { IF kind = "audio"
                 THEN select_default_audio(formats, prefs, quality_override)
                 ELSE select_default_video(formats, prefs, quality_override) } :
        /\ default_fmt' = r.selected
        /\ media_list' = r.list
        \* if args.audio and default_audio: ... download_audio_with_fallback(...)
        /\ pc' = IF r.selected # NoFormat THEN "fallback" ELSE "done"
        \* the preferences dict and the format list as the call leaves them
        /\ prefs' = r.preferences
        /\ formats' = formats
  /\ UNCHANGED <<resolver_vars, concurrent_vars, job_vars, evaluations, kind, quality_override, max_format_attempts, max_retries,
                 retry_delay, attempt, handed, outcomes, result, escaped, success_count, fn,
                 retry_attempt, delay, sleeps, ops, last_error, dl, calls, selector,
                 signalled>>

\* ------------------------- download_audio_with_fallback / download_video_with_fallback

\* a loop over every candidate, whatever max_format_attempts says
FallbackRangeAll == Len(media_list)

\* range(min(max_format_attempts, len(audio_formats)))
FallbackRange == PyMin(max_format_attempts, Len(media_list))

\* remaining_formats = audio_formats[attempt:]; smart_*_selection(remaining, prefs)
FallbackSelect ==
  smart_selection(PySliceFrom(media_list, attempt), prefs, kind = "audio")

\* one pass of the loop body up to the call of download_audio / download_video
FallbackAttempt ==
  /\ pc = "fallback"
  /\ attempt < FallbackRange
  /\ \E selected_format \in { FallbackSelect } :
     IF selected_format = NoFormat
     THEN \* "if not selected_format: ... continue"
          /\ attempt' = attempt + 1
          /\ UNCHANGED <<pc, handed, fn, retry_attempt, delay, sleeps, ops,
                         last_error, dl>>
     ELSE /\ handed' = Append(handed, selected_format.format_id)
          /\ fn' = IF kind = "audio" THEN "download_audio" ELSE "download_video"
          /\ retry_attempt' = 0
          /\ delay' = retry_delay
          /\ sleeps' = <<>>
          /\ ops' = 0
          /\ last_error' = NoneVal
          /\ dl' = NoCall
          /\ pc' = "download"
          /\ UNCHANGED attempt
  /\ UNCHANGED <<resolver_vars, concurrent_vars, job_vars, evaluations, inputs, default_fmt, media_list, outcomes, result, escaped,
                 success_count, calls, selector, signalled>>

\* the loop body without "if success: return True": a success is passed over
FallbackResumeNoStop ==
  /\ pc = "returned"
  /\ kind # "direct"
  /\ outcomes' = Append(outcomes, IF dl.how = "return" THEN dl.value ELSE dl.how)
  /\ attempt' = attempt + 1
  /\ pc' = "fallback"
  /\ escaped' = FALSE
  /\ UNCHANGED <<resolver_vars, concurrent_vars, job_vars, evaluations, inputs, default_fmt, media_list, handed, result, success_count, fn,
                 retry_attempt, delay, sleeps, ops, last_error, dl, calls, selector,
                 signalled>>

\* the loop body without its "except Exception": a raised failure leaves the
\* function
FallbackResumePropagate ==
  /\ pc = "returned"
  /\ kind # "direct"
  /\ outcomes' = Append(outcomes, IF dl.how = "return" THEN dl.value ELSE dl.how)
  /\ IF dl.how = "return" /\ dl.value = "True"
     THEN /\ result' = ReturnBool(TRUE)
          /\ pc' = "report"
          /\ UNCHANGED <<attempt, escaped>>
     ELSE IF dl.how = "raise"
     THEN /\ escaped' = TRUE
          /\ pc' = "report"
          /\ UNCHANGED <<attempt, result>>
     ELSE /\ attempt' = attempt + 1
          /\ pc' = "fallback"
          /\ UNCHANGED <<result, escaped>>
  /\ UNCHANGED <<resolver_vars, concurrent_vars, job_vars, evaluations, inputs, default_fmt, media_list, handed, success_count, fn,
                 retry_attempt, delay, sleeps, ops, last_error, dl, calls, selector,
                 signalled>>

\* the call came back: return True on success, otherwise the next pass
FallbackResume ==
  /\ pc = "returned"
  /\ kind # "direct"
  /\ outcomes' = Append(outcomes, IF dl.how = "return" THEN dl.value ELSE dl.how)
  /\ IF dl.how = "return" /\ dl.value = "True"
     THEN \* "if success: return True"
          /\ result' = ReturnBool(TRUE)
          /\ pc' = "report"
          /\ UNCHANGED attempt
     ELSE \* a falsy return value, or "except Exception as e: ... continue"
          /\ attempt' = attempt + 1
          /\ pc' = "fallback"
          /\ UNCHANGED result
  /\ escaped' = FALSE
  /\ UNCHANGED <<resolver_vars, concurrent_vars, job_vars, evaluations, inputs, default_fmt, media_list, handed, success_count, fn,
                 retry_attempt, delay, sleeps, ops, last_error, dl, calls, selector,
                 signalled>>

\* the loop is over and the function ends with "return True"
FallbackExhaustedTrue ==
  /\ pc = "fallback"
  /\ attempt >= FallbackRange
  /\ result' = ReturnBool(TRUE)
  /\ pc' = "report"
  /\ UNCHANGED <<resolver_vars, concurrent_vars, job_vars, evaluations, inputs, default_fmt, media_list, attempt, handed, outcomes, escaped,
                 success_count, fn, retry_attempt, delay, sleeps, ops, last_error, dl,
                 calls, selector, signalled>>

\* the loop is over: return False
FallbackExhausted ==
  /\ pc = "fallback"
  /\ attempt >= FallbackRange
  /\ result' = ReturnBool(FALSE)
  /\ pc' = "report"
  /\ UNCHANGED <<resolver_vars, concurrent_vars, job_vars, evaluations, inputs, default_fmt, media_list, attempt, handed, outcomes, escaped,
                 success_count, fn, retry_attempt, delay, sleeps, ops, last_error, dl,
                 calls, selector, signalled>>

\* process_single_video: "if download_audio_with_fallback(...): success_count += 1",
\* else the fixed failure message; "except Exception" when the call raised
Report ==
  /\ pc = "report"
  /\ success_count' = IF ~escaped /\ result = ReturnBool(TRUE)
                      THEN success_count + 1 ELSE success_count
  /\ pc' = "done"
  /\ UNCHANGED <<resolver_vars, concurrent_vars, job_vars, evaluations, inputs, default_fmt, media_list, attempt, handed, outcomes, result,
                 escaped,
                 fn, retry_attempt, delay, sleeps, ops, last_error, dl, calls, selector,
                 signalled>>

\* ------------------------------------------- download_audio / download_video

\* range(max_retries), one pass short
RetryRangeShort == max_retries

\* "for attempt in range(max_retries + 1)"
RetryRange == max_retries + 1

\* "if attempt < max_retries" in the except clause: another try follows
CanRetry == retry_attempt < max_retries

\* a backoff that never grows
NextDelayFlat(d) == d

\* "retry_delay *= 2  # Exponential backoff"
NextDelay(d) == d * 2

\* the exception raised without the {str(e)} of the last error
FailedAfterNoCause(name, n, e) == [what |-> name, attempts |-> n, cause |-> NoneVal]

\* f"Audio download failed after {max_retries + 1} attempts: {str(e)}"
FailedAfter(name, n, e) == [what |-> name, attempts |-> n, cause |-> e]

\* one pass of "for attempt in range(max_retries + 1)": the call of ydl.download
\* and what follows it
DownloadTry ==
  /\ pc = "download"
  /\ fn \in {"download_audio", "download_video"}
  /\ retry_attempt < RetryRange
  /\ ops' = ops + 1
  /\ calls' = calls + 1
  /\ \/ \* ydl.download returned
        /\ dl' = [how |-> "return", value |-> "True"]
        /\ pc' = "returned"
        /\ UNCHANGED <<retry_attempt, delay, sleeps, last_error>>
     \/ \* ydl.download raised e
        \E e \in Errors :
          /\ last_error' = e
          /\ IF CanRetry
             THEN /\ sleeps' = Append(sleeps, delay)
                  /\ delay' = NextDelay(delay)
                  /\ retry_attempt' = retry_attempt + 1
                  /\ UNCHANGED <<pc, dl>>
             ELSE /\ dl' = [how |-> "raise",
                            exc |-> FailedAfter(fn, max_retries + 1, e)]
                  /\ pc' = "returned"
                  /\ UNCHANGED <<retry_attempt, delay, sleeps>>
  /\ UNCHANGED <<resolver_vars, concurrent_vars, job_vars, evaluations, inputs, fallback_vars, fn, selector, signalled>>

\* the loop ran out without a pass (max_retries + 1 <= 0): return False
DownloadLoopEnd ==
  /\ pc = "download"
  /\ fn \in {"download_audio", "download_video"}
  /\ retry_attempt >= RetryRange
  /\ dl' = [how |-> "return", value |-> "False"]
  /\ pc' = "returned"
  /\ UNCHANGED <<resolver_vars, concurrent_vars, job_vars, evaluations, inputs, fallback_vars, fn, retry_attempt, delay, sleeps, ops,
                 last_error, calls, selector, signalled>>

\* ------------------------------------------------ download_video_with_audio

\* len(format_selectors)
NumSelectors == 4

\* one pass of the inner "for attempt in range(max_retries + 1)" under the
\* current format selector; "break" moves on to the next selector
VideoWithAudioTry ==
  /\ pc = "download"
  /\ fn = "download_video_with_audio"
  /\ selector < NumSelectors
  /\ retry_attempt < RetryRange
  /\ ops' = ops + 1
  /\ calls' = calls + 1
  /\ \/ \* ydl.download returned
        /\ dl' = [how |-> "return", value |-> "True"]
        /\ pc' = "returned"
        /\ UNCHANGED <<retry_attempt, delay, sleeps, last_error, selector>>
     \/ \* ydl.download raised e
        \E e \in Errors :
          /\ last_error' = e
          /\ IF CanRetry
             THEN /\ sleeps' = Append(sleeps, delay)
                  /\ delay' = NextDelay(delay)
                  /\ retry_attempt' = retry_attempt + 1
                  /\ UNCHANGED selector
             ELSE /\ selector' = selector + 1
                  /\ retry_attempt' = 0
                  /\ UNCHANGED <<delay, sleeps>>
          /\ UNCHANGED <<pc, dl>>
  /\ UNCHANGED <<resolver_vars, concurrent_vars, job_vars, evaluations, inputs, fallback_vars, fn, signalled>>

\* every selector is used up (or no pass can run): return False
VideoWithAudioEnd ==
  /\ pc = "download"
  /\ fn = "download_video_with_audio"
  /\ selector >= NumSelectors \/ RetryRange <= 0
  /\ dl' = [how |-> "return", value |-> "False"]
  /\ pc' = "returned"
  /\ UNCHANGED <<resolver_vars, concurrent_vars, job_vars, evaluations, inputs, fallback_vars, fn, retry_attempt, delay, sleeps, ops,
                 last_error, calls, selector, signalled>>

\* -------------------------------------------------------- download_transcript

\* the exceptions the transcript API raises
TranscriptErrors ==
  { [type |-> "TranscriptsDisabled", msg |-> "subtitles are disabled"],
    [type |-> "NoTranscriptFound", msg |-> "no transcripts were found"],
    [type |-> "Exception", msg |-> "connection reset"] }

\* f"Transcripts are disabled or not found for this video: {str(e)}"
DisabledOrNotFound(e) ==
  [what |-> "Transcripts are disabled or not found for this video", cause |-> e]

IsPermanent(e) == e.type \in {"TranscriptsDisabled", "NoTranscriptFound"}

Raised(e) == [how |-> "raise", exc |-> e]

NoSignal == [raised |-> FALSE]

Signal(call, e) == [raised |-> TRUE, call |-> call, type |-> e.type]

Returned(v) == [how |-> "return", value |-> v]

\* what the external calls of one attempt do, should the attempt reach them
TranscriptWorlds ==
  [list : {Returned("has language"), Returned("lacks language")}
            \cup {Raised(e) : e \in TranscriptErrors},
   fetch : {Returned("data"), Returned("empty")}
            \cup {Raised(e) : e \in TranscriptErrors},
   get_transcript : {Returned("data"), Returned("empty")}
            \cup {Raised(e) : e \in TranscriptErrors},
   save : {Returned("ok"), Raised([type |-> "Exception", msg |-> "disk full"])}]

\* the permanent condition the external calls of one attempt in world w raise:
\* which call raised it, and its type
PermanentSignal(w) ==
  IF w.list.how = "raise"
  THEN (IF IsPermanent(w.list.exc) THEN Signal("list", w.list.exc) ELSE NoSignal)
  ELSE IF w.list.value = "has language" /\ w.fetch.how = "raise"
  THEN (IF IsPermanent(w.fetch.exc) THEN Signal("fetch", w.fetch.exc) ELSE NoSignal)
  ELSE IF /\ w.list.value = "lacks language" \/ w.fetch = Returned("empty")
          /\ w.get_transcript.how = "raise"
          /\ IsPermanent(w.get_transcript.exc)
  THEN Signal("get_transcript", w.get_transcript.exc)
  ELSE NoSignal

\* the try body of one attempt (lines 195-277): the saved files, or the
\* exception that leaves the body
TranscriptAttempt(w) ==
  IF w.list.how = "raise" THEN w.list
  ELSE IF w.list.value = "has language" /\ w.fetch.how = "raise" THEN w.fetch
  ELSE LET transcript_data ==
             IF w.list.value = "has language" THEN w.fetch.value ELSE "empty"
           \* "except Exception as fallback_error: raise Exception(No transcript found ...)"
           after_fallback ==
             IF transcript_data # "empty" THEN Returned(transcript_data)
             ELSE IF w.get_transcript.how = "raise"
                  THEN Raised([type |-> "Exception",
                               msg |-> "No transcript found for language"])
                  ELSE w.get_transcript
       IN IF after_fallback.how = "raise" THEN after_fallback
          ELSE IF after_fallback.value = "empty"
               THEN Raised([type |-> "Exception",
                            msg |-> "No transcript data found for language"])
          ELSE IF w.save.how = "raise" THEN w.save
          ELSE Returned("saved_files")

\* one pass of "for attempt in range(max_retries + 1)" with its except clauses
TranscriptTry ==
  /\ pc = "download"
  /\ fn = "download_transcript"
  /\ retry_attempt < RetryRange
  /\ ops' = ops + 1
  /\ calls' = calls + 1
  /\ \E w \in TranscriptWorlds :
       LET r == TranscriptAttempt(w) IN
       /\ signalled' = IF signalled.raised THEN signalled ELSE PermanentSignal(w)
       /\ IF r.how = "return"
          THEN /\ dl' = r
               /\ pc' = "returned"
               /\ UNCHANGED <<retry_attempt, delay, sleeps, last_error>>
          ELSE /\ last_error' = r.exc.msg
               /\ IF IsPermanent(r.exc)
                  THEN \* except (TranscriptsDisabled, NoTranscriptFound) as e
                       /\ dl' = Raised(DisabledOrNotFound(r.exc.msg))
                       /\ pc' = "returned"
                       /\ UNCHANGED <<retry_attempt, delay, sleeps>>
                  ELSE IF CanRetry
                  THEN /\ sleeps' = Append(sleeps, delay)
                       /\ delay' = NextDelay(delay)
                       /\ retry_attempt' = retry_attempt + 1
                       /\ UNCHANGED <<pc, dl>>
                  ELSE /\ dl' = Raised(FailedAfter(fn, max_retries + 1, r.exc.msg))
                       /\ pc' = "returned"
                       /\ UNCHANGED <<retry_attempt, delay, sleeps>>
  /\ UNCHANGED <<resolver_vars, concurrent_vars, job_vars, evaluations, inputs, fallback_vars, fn, selector>>

\* the loop ran out without a pass (max_retries + 1 <= 0): return None
TranscriptLoopEnd ==
  /\ pc = "download"
  /\ fn = "download_transcript"
  /\ retry_attempt >= RetryRange
  /\ dl' = [how |-> "return", value |-> "None"]
  /\ pc' = "returned"
  /\ UNCHANGED <<resolver_vars, concurrent_vars, job_vars, evaluations, inputs, fallback_vars, fn, retry_attempt, delay, sleeps, ops,
                 last_error, calls, selector, signalled>>

\* ------------------------------------------ the selection functions, called

\* formats of every kind, with equal-scoring pairs (140 / 140-drc, 135 / 397) and
\* a format whose acodec field is missing
SelectCatalogue ==
  { Fmt("139", "m4a", "none", "mp4a", <<"low">>, 0, 1048576, NoSize),
    Fmt("140", "M4A", "none", "mp4a", <<"Medium">>, 0, 3145728, NoSize),
    Fmt("140-drc", "m4a", "none", "mp4a", <<"medium">>, 0, 3145728, NoSize),
    Fmt("135", "mp4", "avc1", "none", <<"480p">>, 480, 20971520, NoSize),
    Fmt("397", "mp4", "av01", "none", <<"480p">>, 480, NoSize, 20971520),
    Fmt("18", "mp4", "avc1", "mp4a", <<"360p">>, 360, NoSize, 9000000),
    Fmt("nocodec", "mp4", "none", NoneVal, <<>>, 0, NoSize, NoSize) }

\* lists of distinct formats of the catalogue, up to MaxCandidates long
CandidateLists ==
  UNION { { s \in [1..n -> SelectCatalogue] : \A i, j \in 1..n : i # j => s[i] # s[j] }
          : n \in 0..MaxCandidates }

ProbeExts == {"mp3", "m4a", "webm", "mp4", "MP4", "flv", "opus"}

ProbeNotes == {<<>>, <<"low">>, <<"Medium">>, <<"HIGH">>, <<"low", "high">>}

\* filesize: None, 0, 1 MB, 50 MB and a byte, 1.5 GB
ProbeSizes == {NoSize, 0, 1048576, 52428801, 1610612736}

\* filesize_approx: None, 2 MB
ProbeApprox == {NoSize, 2097152}

ProbeHeights == {0, 144, 360, 480, 720, 1080, 1440, 2160, 4320, 8000}

\* audio-only formats: one of every extension, and one of every note and size
AudioProbes ==
  { Fmt("a", e, "none", "opus", <<"medium">>, 0, 1048576, NoSize) : e \in ProbeExts }
  \cup { Fmt("a", "m4a", "none", "opus", n, 0, fs, ap) :
            n \in ProbeNotes, fs \in ProbeSizes, ap \in ProbeApprox }

\* video-only formats: one of every extension, and one of every height and size
VideoProbes ==
  { Fmt("v", e, "vp9", "none", <<"720p">>, 720, 1048576, NoSize) : e \in ProbeExts }
  \cup { Fmt("v", "mp4", "vp9", "none", <<>>, h, fs, ap) :
            h \in ProbeHeights, fs \in ProbeSizes, ap \in ProbeApprox }

\* preferred_formats as configured: the audio and video defaults, an empty list,
\* and a long list with an upper-case entry
FormatPrefs ==
  { <<"mp3", "m4a", "webm">>, <<"mp4", "webm", "mkv">>, <<>>,
    <<"MP4", "mkv", "webm", "m4a", "ogg", "aac", "wav", "flac", "3gp", "avi",
      "mov", "opus">> }

\* the preferences a single format is scored under: every preferred quality
\* and format list
SelectAudioPrefs ==
  [preferred_quality : {"high", "medium", "low", "best"},
   preferred_formats : FormatPrefs,
   max_fallback_attempts : {3}]

SelectVideoPrefs ==
  [preferred_quality : {"720p", "1080p", "480p", "360p"},
   preferred_formats : FormatPrefs,
   max_fallback_attempts : {3}]

\* the preferences a list of formats is ranked under: the default format
\* lists, max_fallback_attempts at its default and at 0
ListAudioPrefs ==
  [preferred_quality : {"high", "medium"},
   preferred_formats : {<<"mp3", "m4a", "webm">>},
   max_fallback_attempts : {0, 3}]

ListVideoPrefs ==
  [preferred_quality : {"720p", "1080p"},
   preferred_formats : {<<"mp4", "webm", "mkv">>},
   max_fallback_attempts : {0, 3}]

\* the quality_override arguments a caller passes (args.quality, or None)
Overrides == {NoneVal, "480p"}

\* a caller holds a format list and a preferences dict and calls the selection
\* functions of one media kind on them
InitSelect ==
  /\ kind \in {"audio", "video", "combined"}
  /\ \/ /\ formats \in CandidateLists
        /\ prefs \in (IF kind = "audio" THEN ListAudioPrefs ELSE ListVideoPrefs)
     \/ /\ formats \in (IF kind = "audio" THEN { <<c>> : c \in AudioProbes }
                        ELSE IF kind = "video" THEN { <<c>> : c \in VideoProbes }
                        ELSE {})
        /\ prefs \in (IF kind = "audio" THEN SelectAudioPrefs ELSE SelectVideoPrefs)
  /\ quality_override = NoneVal
  /\ max_format_attempts = 0
  /\ max_retries = 0
  /\ retry_delay = 2
  /\ pc = "call"
  /\ FallbackIdle
  /\ fn = NoneVal
  /\ delay = retry_delay
  /\ DownloadIdle
  /\ ResolverIdle
  /\ ConcurrentIdle
  /\ JobsIdle

\* a selection that remembers: once a call has been made, the candidate listed
\* last is returned
SelectRemembering(which, fmts, preferences, override) ==
  LET r == select_from(IF which = "audio" THEN FilterAudio(fmts)
                       ELSE IF which = "video" THEN FilterVideo(fmts)
                       ELSE FilterCombined(fmts),
                       preferences, override, which = "audio")
  IN IF evaluations = <<>> \/ r.list = <<>> THEN r
     ELSE [r EXCEPT !.selected = r.list[Len(r.list)]]

\* the selection function of a media kind: (selected, list), see select_from
Select(which, fmts, preferences, override) ==
  IF which = "audio" THEN select_default_audio(fmts, preferences, override)
  ELSE IF which = "video" THEN select_default_video(fmts, preferences, override)
  ELSE select_combined_video_audio(fmts, preferences, override)

\* one call of select_default_audio / select_default_video /
\* select_combined_video_audio on the caller's list and preferences
SelectCall ==
  /\ pc = "call"
  /\ Len(evaluations) < MaxCalls
  /\ \E override \in Overrides :
     \E r \in { Select(kind, formats, prefs, override) } :
       /\ quality_override' = override
       /\ default_fmt' = r.selected
       /\ media_list' = r.list
       \* the list comprehension and scored_formats are new lists; the dicts in
       \* them are the caller's, and no statement writes to one
       /\ formats' = formats
       /\ prefs' = r.preferences
       /\ evaluations' = Append(evaluations,
              [call |-> kind, formats |-> formats, preferences |-> prefs,
               quality_override |-> override, selected |-> r.selected,
               list |-> r.list, scored |-> r.scored])
  /\ UNCHANGED <<resolver_vars, concurrent_vars, job_vars,
                 kind, max_format_attempts, max_retries, retry_delay, pc, attempt,
                 handed, outcomes, result, escaped, success_count, fn, retry_attempt, delay,
                 sleeps, ops, last_error, dl, calls, selector, signalled>>

\* ------------------------------------------------------- transcript metadata

\* the codes "language_code in ['en', 'en-US', 'en-GB']" accepts
EnglishCodes == {"en", "en-US", "en-GB"}

\* Python's None where a transcript row is expected
NoTranscript == [language_code |-> NoneVal]

\* _get_transcript_list raised
ApiFailure == [how |-> "raise"]

\* _get_transcript_list returned these transcripts
ApiList(list) == [how |-> "return", value |-> list]

\* "if not x" on an Optional[str]: None and '' are falsy
Falsy(x) == x = NoneVal \/ x = ""

\* next((t for t in seq if t['language_code'] in codes), None)
RECURSIVE NextWithCode(_, _)
NextWithCode(seq, codes) ==
  IF seq = <<>> THEN NoTranscript
  ELSE IF Head(seq).language_code \in codes THEN Head(seq)
  ELSE NextWithCode(Tail(seq), codes)

\* is_default = (not is_generated) or (is_generated and language_code in [...])
IsDefault(t) ==
  (~t.is_generated) \/ (t.is_generated /\ t.language_code \in EnglishCodes)

\* list_transcript_metadata: [] when the list cannot be fetched, else one row
\* per transcript, in the API's order
list_transcript_metadata(api_list) ==
  IF api_list = ApiFailure THEN <<>>
  ELSE [i \in 1..Len(api_list.value) |->
          [language_code |-> api_list.value[i].language_code,
           is_generated |-> api_list.value[i].is_generated,
           is_default |-> IsDefault(api_list.value[i])]]

\* "if not preferred_language: ... preferred_language = config_languages[0]"
ConfiguredLanguage(language, configured) ==
  IF Falsy(language) /\ configured # <<>> THEN configured[1] ELSE language

\* a resolver that never looks at the is_default flag
NoExplicitDefault(metadata) == NoTranscript

\* "if r['is_default']: default_transcript = r" in the loop over the rows: the
\* last flagged row stays
RECURSIVE ExplicitDefault(_)
ExplicitDefault(metadata) ==
  IF metadata = <<>> THEN NoTranscript
  ELSE IF metadata[Len(metadata)].is_default THEN metadata[Len(metadata)]
  ELSE ExplicitDefault(SubSeq(metadata, 1, Len(metadata) - 1))

\* a resolver without its last resort
NoFirstAuto(auto_generated_transcripts) == NoTranscript

\* "default_transcript = auto_generated_transcripts[0]"
FirstAuto(auto_generated_transcripts) == auto_generated_transcripts[1]

\* print_and_select_default_transcript from "default_transcript = None" to
\* "return default_transcript", on the rows and the preferred language in force
SelectTranscript(metadata, language) ==
  LET manual_transcripts == SelectSeq(metadata, LAMBDA r : ~r.is_generated)
      auto_generated_transcripts == SelectSeq(metadata, LAMBDA r : r.is_generated)
      explicit == ExplicitDefault(metadata)
      all_transcripts == manual_transcripts \o auto_generated_transcripts
      preferred_transcript ==
        IF Falsy(language) THEN NoTranscript ELSE NextWithCode(all_transcripts, {language})
      english_auto == NextWithCode(auto_generated_transcripts, EnglishCodes)
  IN IF explicit # NoTranscript THEN explicit
     ELSE IF preferred_transcript # NoTranscript THEN preferred_transcript
     ELSE IF manual_transcripts # <<>> THEN manual_transcripts[1]
     ELSE IF auto_generated_transcripts # <<>>
          THEN IF english_auto # NoTranscript THEN english_auto
               ELSE FirstAuto(auto_generated_transcripts)
     ELSE NoTranscript

\* print_and_select_default_transcript(video_id, preferred_language)
print_and_select_default_transcript(api_list, language, configured) ==
  LET metadata == list_transcript_metadata(api_list)
  IN [rows |-> metadata,
      value |-> IF metadata = <<>> THEN NoTranscript
                ELSE SelectTranscript(metadata, ConfiguredLanguage(language, configured))]

\* the transcripts a video can have: a language code, manual or auto-generated
Transcripts ==
  [language_code : {"en", "en-US", "es", "fr"}, is_generated : BOOLEAN]

RECURSIVE TranscriptLists(_)
TranscriptLists(n) ==
  IF n = 0 THEN { <<>> }
  ELSE LET shorter == TranscriptLists(n - 1)
       IN shorter \cup { Append(l, t) : l \in { x \in shorter : Len(x) = n - 1 },
                                        t \in Transcripts }

\* --lang, absent or given
Languages == {NoneVal, "en", "fr", "de"}

\* transcripts.preferred_languages of the configuration (empty also when the
\* configuration cannot be loaded)
ConfigLanguages == { <<>>, <<"en">>, <<"fr", "en">> }

\* process_single_video reaches step 3's transcript selection for some video
InitResolve ==
  /\ transcript_list \in { ApiList(l) : l \in TranscriptLists(MaxTracks) } \cup {ApiFailure}
  /\ preferred_language \in Languages
  /\ config_languages \in ConfigLanguages
  /\ rows = <<>>
  /\ default_transcript = [how |-> "none"]
  /\ formats = <<>>
  /\ kind = "transcript"
  /\ prefs = [preferred_quality |-> "medium", preferred_formats |-> <<>>,
              max_fallback_attempts |-> 3]
  /\ quality_override = NoneVal
  /\ max_format_attempts = 0
  /\ max_retries = 0
  /\ retry_delay = 2
  /\ pc = "resolve"
  /\ FallbackIdle
  /\ fn = NoneVal
  /\ delay = retry_delay
  /\ DownloadIdle
  /\ ConcurrentIdle
  /\ JobsIdle

\* default_transcript = print_and_select_default_transcript(info.get("id"),
\*                                                          preferred_language=args.lang)
ResolveCall ==
  /\ pc = "resolve"
  /\ LET r == print_and_select_default_transcript(transcript_list, preferred_language,
                                                   config_languages)
     IN /\ rows' = r.rows
        /\ default_transcript' = [how |-> "return", value |-> r.value]
  /\ pc' = "resolved"
  /\ UNCHANGED <<transcript_list, preferred_language, config_languages, concurrent_vars,
                 job_vars, evaluations, inputs, fallback_vars, fn, retry_attempt, delay,
                 sleeps, ops, last_error, dl, calls, selector, signalled>>

\* ------------------------------------------------- interleaved invocations

\* the invocations of download_*_with_fallback in progress at the same time
Invocations == 1..NumInvocations

\* retry_delay as one module-level variable all invocations use
SharedCell(i) == 1

\* retry_delay is a parameter of download_audio / download_video: every call
\* has its own
DelayCell(i) == i

\* the local variables of download_*_with_fallback when it is entered
Enter(which, media, preferences, format_attempts, retries, initial_delay) ==
  [kind |-> which, media_list |-> media, prefs |-> preferences,
   max_format_attempts |-> format_attempts, max_retries |-> retries,
   retry_delay |-> initial_delay,
   attempt |-> 0, retry_attempt |-> 0, handed |-> <<>>, sleeps |-> <<>>,
   result |-> "running"]

\* the top of the fallback loop's body: leave the loop with "return False", or
\* select from the remaining formats and call download_audio / download_video
\* with the configured retry_delay
NextPass(f, d) ==
  IF f.attempt >= PyMin(f.max_format_attempts, Len(f.media_list))
  THEN [frame |-> [f EXCEPT !.result = "False"], delay |-> d]
  ELSE LET selected_format ==
             smart_selection(PySliceFrom(f.media_list, f.attempt), f.prefs,
                             f.kind = "audio")
       IN [frame |-> [f EXCEPT !.handed = Append(@, selected_format.format_id),
                               !.retry_attempt = 0],
           delay |-> f.retry_delay]

\* ydl.download answered the call in progress: "return True" up to the caller
\* of the fallback loop, or the except clause of the retry loop (sleep, double
\* the delay, next try), or the raise that the fallback loop catches
AfterAnswer(f, d, ok) ==
  IF ok THEN [frame |-> [f EXCEPT !.result = "True"], delay |-> d]
  ELSE IF f.retry_attempt < f.max_retries
  THEN [frame |-> [f EXCEPT !.sleeps = Append(@, d),
                           !.retry_attempt = @ + 1],
        delay |-> NextDelay(d)]
  ELSE NextPass([f EXCEPT !.attempt = @ + 1], d)

\* what each invocation is called with: an audio or a video list of two
\* candidates, max_format_attempts below and at the list's length, without
\* retries and with the most
InvocationInputs ==
  { Enter(k.kind, k.list, k.prefs, a, r, 2) :
      k \in { [kind |-> "audio",
               list |-> << Fmt("139", "m4a", "none", "mp4a", <<"low">>, 0, 1048576, NoSize),
                           Fmt("140", "M4A", "none", "mp4a", <<"Medium">>, 0, 3145728, NoSize) >>,
               prefs |-> [preferred_quality |-> "medium",
                          preferred_formats |-> <<"mp3", "m4a", "webm">>,
                          max_fallback_attempts |-> 3]],
              [kind |-> "video",
               list |-> << Fmt("135", "mp4", "avc1", "none", <<"480p">>, 480, 20971520, NoSize),
                           Fmt("248", "webm", "vp9", "none", <<"1080p">>, 1080, NoSize, NoSize) >>,
               prefs |-> [preferred_quality |-> "720p",
                          preferred_formats |-> <<"mp4", "webm", "mkv">>,
                          max_fallback_attempts |-> 3]] },
      a \in {1, 2},
      r \in {0, MaxFallbackRetries} }

\* several requests are being served: every invocation has entered its fallback
\* loop and made its first call
InitConcurrent ==
  /\ \E entered \in [Invocations -> InvocationInputs] :
       /\ frames = [i \in Invocations |-> NextPass(entered[i], entered[i].retry_delay).frame]
       /\ cells = [i \in Invocations |->
                     NextPass(entered[i], entered[i].retry_delay).delay]
  /\ scripts = [i \in Invocations |-> <<>>]
  /\ formats = <<>>
  /\ kind = "concurrent"
  /\ prefs = [preferred_quality |-> "medium", preferred_formats |-> <<>>,
              max_fallback_attempts |-> 3]
  /\ quality_override = NoneVal
  /\ max_format_attempts = 0
  /\ max_retries = 0
  /\ retry_delay = 2
  /\ pc = "concurrent"
  /\ FallbackIdle
  /\ fn = NoneVal
  /\ delay = retry_delay
  /\ DownloadIdle
  /\ ResolverIdle
  /\ JobsIdle

\* the external downloader answers invocation i's call in progress, and the
\* invocation runs on to its next call or to its return
CallAnswered(i) ==
  /\ pc = "concurrent"
  /\ frames[i].result = "running"
  /\ \E ok \in BOOLEAN :
       LET r == AfterAnswer(frames[i], cells[DelayCell(i)], ok)
       IN /\ frames' = [frames EXCEPT ![i] = r.frame]
          /\ cells' = [cells EXCEPT ![DelayCell(i)] = r.delay]
          /\ scripts' = [scripts EXCEPT ![i] = Append(@, ok)]
  /\ UNCHANGED <<resolver_vars, job_vars, evaluations, inputs, fallback_vars, pc, fn,
                 retry_attempt, delay, sleeps, ops, last_error, dl, calls, selector,
                 signalled>>

\* ------------------------------------------------ audio_dl: background jobs

\* the videos the queued urls point at; yt-dlp names a video's file after its
\* title ("%(title)s.%(ext)s")
Videos == {"a", "b"}

\* the file names in the media directory
RECURSIVE Names(_)
Names(dir) == IF dir = <<>> THEN {} ELSE {Head(dir)} \cup Names(Tail(dir))

\* the media directory after a download that wrote the file name: the file is
\* the newest one, or, when a file of that name was there already and yt-dlp
\* left it alone, the directory is as before
Written(dir, name) ==
  { SelectSeq(dir, LAMBDA n : n # name) \o <<name>> }
    \cup (IF name \in Names(dir) THEN {dir} ELSE {})

\* max(audio_files, key=os.path.getctime)
LatestFile(dir) == dir[Len(dir)]

\* CompletedTask.objects.filter(task_params__icontains=job_id).first()
CompletedTaskFor(job_id) ==
  job_id \in DOMAIN tasks /\ tasks[job_id].state = "completed"

\* Task.objects.filter(task_params__icontains=job_id).first()
TaskFor(job_id) ==
  job_id \in DOMAIN tasks /\ tasks[job_id].state = "queued"

\* the server is up: no task was queued yet and the media directory is empty
InitJobs ==
  /\ tasks = <<>>
  /\ files = <<>>
  /\ responses = <<>>
  /\ formats = <<>>
  /\ kind = "jobs"
  /\ prefs = [preferred_quality |-> "medium", preferred_formats |-> <<>>,
              max_fallback_attempts |-> 3]
  /\ quality_override = NoneVal
  /\ max_format_attempts = 0
  /\ max_retries = 0
  /\ retry_delay = 2
  /\ pc = "jobs"
  /\ FallbackIdle
  /\ fn = NoneVal
  /\ delay = retry_delay
  /\ DownloadIdle
  /\ ResolverIdle
  /\ ConcurrentIdle

\* download_audio_api_async: a new task id, and process_youtube_audio(url,
\* task_id=task_id, ...) puts a Task row into the queue
QueueTask ==
  /\ pc = "jobs"
  /\ Len(tasks) < MaxTasks
  /\ \E v \in Videos :
       tasks' = Append(tasks, [video |-> v, state |-> "queued", success |-> FALSE])
  /\ UNCHANGED <<files, responses, resolver_vars, concurrent_vars, evaluations, inputs,
                 fallback_vars, pc, fn, retry_attempt, delay, sleeps, ops, last_error, dl,
                 calls, selector, signalled>>

\* the worker runs a queued task: process_youtube_audio downloads into
\* MEDIA_ROOT/downloads/audio or fails, prints the outcome and returns either
\* way, and the row moves to CompletedTask
RunTask ==
  /\ pc = "jobs"
  /\ \E t \in DOMAIN tasks :
       /\ tasks[t].state = "queued"
       /\ \/ /\ tasks' = [tasks EXCEPT ![t].state = "completed", ![t].success = TRUE]
             /\ files' \in Written(files, tasks[t].video)
          \/ /\ tasks' = [tasks EXCEPT ![t].state = "completed"]
             /\ files' = files
  /\ UNCHANGED <<responses, resolver_vars, concurrent_vars, evaluations, inputs,
                 fallback_vars, pc, fn, retry_attempt, delay, sleeps, ops, last_error, dl,
                 calls, selector, signalled>>

\* GET job_result for some job_id, known or not
JobResult ==
  /\ pc = "jobs"
  /\ Len(responses) < MaxResponses
  /\ \E job_id \in 1..(MaxTasks + 1) :
       responses' = Append(responses,
         IF ~CompletedTaskFor(job_id)
         THEN IF ~TaskFor(job_id)
              THEN [job_id |-> job_id, status |-> 404, file |-> NoneVal]
              ELSE [job_id |-> job_id, status |-> 202, file |-> NoneVal]
         ELSE IF files = <<>>
              THEN [job_id |-> job_id, status |-> 400, file |-> NoneVal]
              ELSE [job_id |-> job_id, status |-> 200, file |-> LatestFile(files)])
  /\ UNCHANGED <<tasks, files, resolver_vars, concurrent_vars, evaluations, inputs,
                 fallback_vars, pc, fn, retry_attempt, delay, sleeps, ops, last_error, dl,
                 calls, selector, signalled>>

\* ------------------------------------------------------------ specifications

Next ==
  \/ SelectDefault
  \/ FallbackAttempt
  \/ FallbackResume
  \/ FallbackExhausted
  \/ Report
  \/ DownloadTry

Spec == Init /\ [][Next]_vars

\* the catalogue's format with this format_id
ById(id) == CHOOSE f \in Catalogue : f.format_id = id

\* the orders yt-dlp lists the formats in: audio first, or video first
ListingOrders ==
  { <<"139", "140", "251", "135", "248">>, <<"135", "248", "140", "139", "251">> }

\* the first formats of a listing, up to MaxFormats of them
ListedFormats ==
  { [i \in 1..n |-> ById(o[i])] : o \in ListingOrders, n \in 0..MaxFormats }

\* process_single_video asked for one kind of media, under the default
\* preferences and without --quality
InitFair ==
  /\ formats \in ListedFormats
  /\ kind \in {"audio", "video"}
  /\ prefs = (IF kind = "audio"
              THEN [preferred_quality |-> "medium",
                    preferred_formats |-> <<"mp3", "m4a", "webm">>,
                    max_fallback_attempts |-> 3]
              ELSE [preferred_quality |-> "720p",
                    preferred_formats |-> <<"mp4", "webm", "mkv">>,
                    max_fallback_attempts |-> 3])
  /\ quality_override = NoneVal
  /\ max_format_attempts \in 0..MaxFormatAttempts
  /\ max_retries \in 0..MaxFallbackRetries
  /\ retry_delay = 2
  /\ pc = "select"
  /\ FallbackIdle
  /\ fn = NoneVal
  /\ delay = retry_delay
  /\ DownloadIdle
  /\ ResolverIdle
  /\ ConcurrentIdle
  /\ JobsIdle

\* such a run when every step the fallback loop and the download function
\* can take is taken in the end: the program is sequential, ydl.download
\* returns or raises, time.sleep returns
SpecFair ==
  /\ InitFair
  /\ [][Next]_vars
  /\ WF_vars(FallbackAttempt)
  /\ WF_vars(FallbackResume)
  /\ WF_vars(FallbackExhausted)
  /\ WF_vars(DownloadTry)

\* a download function called on its own, with any max_retries and retry_delay
InitRetry ==
  /\ formats = <<>>
  /\ kind = "direct"
  /\ prefs = [preferred_quality |-> "medium", preferred_formats |-> <<>>,
              max_fallback_attempts |-> 3]
  /\ quality_override = NoneVal
  /\ max_format_attempts = 0
  /\ max_retries \in -1..MaxRetries
  /\ retry_delay \in 1..MaxDelay
  /\ pc = "download"
  /\ FallbackIdle
  /\ fn \in {"download_audio", "download_video", "download_video_with_audio",
              "download_transcript"}
  /\ delay = retry_delay
  /\ DownloadIdle
  /\ ResolverIdle
  /\ ConcurrentIdle
  /\ JobsIdle

NextRetry ==
  \/ DownloadTry
  \/ DownloadLoopEnd
  \/ VideoWithAudioTry
  \/ VideoWithAudioEnd
  \/ TranscriptTry
  \/ TranscriptLoopEnd

SpecRetry == InitRetry /\ [][NextRetry]_vars

NextSelect == SelectCall

SpecSelect == InitSelect /\ [][NextSelect]_vars

NextResolve == ResolveCall

SpecResolve == InitResolve /\ [][NextResolve]_vars

NextConcurrent == \E i \in Invocations : CallAnswered(i)

SpecConcurrent == InitConcurrent /\ [][NextConcurrent]_vars

NextJobs ==
  \/ QueueTask
  \/ RunTask
  \/ JobResult

SpecJobs == InitJobs /\ [][NextJobs]_vars

\* ---------------------------------------------------------------- claims

\* the filtered candidate list of the requested kind, ranked by total score
Ranked == SortDesc(ScoreAll(media_list, prefs, kind = "audio"))

\* the run of the fallback loop is over
FallbackOver == pc \in {"report", "done"} /\ handed # <<>>

\* C1: in one run of the fallback loop the download function is called at most
\* min(preferences max_fallback_attempts, number of filtered candidates) times.
C1_AttemptsWithinPreference ==
  Len(handed) <= PyMin(prefs.max_fallback_attempts, Len(media_list))

\* C2: the k-th candidate handed to the download function is the k-th entry of
\* the score-ranked filtered list, and no candidate is handed over twice.
C2_AttemptsInScoreOrder ==
  /\ \A k \in 1..Len(handed) :
        k <= Len(Ranked) /\ handed[k] = Ranked[k].format.format_id
  /\ \A j, k \in 1..Len(handed) : j # k => handed[j] # handed[k]

\* C3: a successful download is the last one of the run (no candidate is tried
\* after it), and the loop returns True exactly when some tried candidate
\* succeeded.
C3_StopsAtFirstSuccess ==
  /\ \A k \in 1..Len(outcomes) :
        outcomes[k] = "True" => (k = Len(outcomes) /\ Len(handed) = k)
  /\ (pc \in {"report", "done"}) =>
        (result = ReturnBool(TRUE) <=> \E k \in 1..Len(outcomes) : outcomes[k] = "True")

C3_Witness ==
  /\ pc = "done"
  /\ result = ReturnBool(TRUE)
  /\ Len(outcomes) = 2
  /\ outcomes[1] = "raise"
  /\ FallbackRange > 2

\* no format of the requested kind is among the input formats
NoneOfKind ==
  \A i \in 1..Len(formats) :
     IF kind = "audio"
     THEN ~(formats[i].vcodec = "none" /\ formats[i].acodec # "none")
     ELSE ~(formats[i].vcodec # "none" /\ formats[i].acodec = "none")

\* C4: when no input format is of the requested kind, selection gives
\* (None, []) and the download function is never called.
C4_NoCandidateNoAttempt ==
  NoneOfKind =>
     /\ handed = <<>> /\ calls = 0 /\ fn = NoneVal
     /\ pc # "select" => (default_fmt = NoFormat /\ media_list = <<>> /\ pc = "done")

C4_Witness ==
  /\ NoneOfKind
  /\ Len(formats) = 2
  /\ pc = "done"
  /\ max_format_attempts > 0

AllFailed == FallbackOver /\ \A k \in 1..Len(outcomes) : outcomes[k] # "True"

\* C6 as amended: when every tried candidate fails the loop returns the bare
\* False, which carries no count, and the caller counts no success.
C6_ExhaustionReturnsFalse ==
  AllFailed =>
     /\ result = ReturnBool(FALSE)
     /\ "tried" \notin DOMAIN result
     /\ pc = "done" => success_count = 0

C6_Witness ==
  /\ AllFailed
  /\ pc = "done"
  /\ Len(handed) = 2

\* C6 as claimed: the failure outcome carries the number of candidates tried.
C6_FailureCarriesTriedCount ==
  AllFailed =>
     /\ result.how = "return" /\ ~result.success
     /\ "tried" \in DOMAIN result /\ result.tried = Len(handed)

\* the running call returned a truthy value
Succeeded == dl.how = "return" /\ dl.value \in {"True", "saved_files"}

\* the functions with one retry loop
SingleLoop == fn \in {"download_audio", "download_video", "download_transcript"}

C7_Bound ==
  SingleLoop =>
     /\ ops <= max_retries + 1
     /\ (pc = "returned" /\ ~Succeeded /\ ~signalled.raised) => ops = max_retries + 1

C7_NoTryAfterSuccess == (SingleLoop /\ Succeeded) => ops' = ops

\* C7: download_audio, download_video and download_transcript try the external
\* operation at most max_retries + 1 times per call, exactly max_retries + 1
\* times when every try fails with a retryable error, and never again after a
\* try succeeded.
C7_RetryBound == [](C7_Bound) /\ [][C7_NoTryAfterSuccess]_vars

C7_Witness ==
  /\ fn = "download_transcript"
  /\ pc = "returned"
  /\ dl.how = "raise"
  /\ ~signalled.raised
  /\ max_retries = 3
  /\ ops = 4

RECURSIVE Pow2(_)
Pow2(n) == IF n <= 0 THEN 1 ELSE 2 * Pow2(n - 1)

\* C8: the wait before the k-th retry is retry_delay * 2^(k-1), there are at
\* most max_retries waits, and no wait follows the last try of a call, whether
\* it succeeded or failed. (The k-th wait of a call is retry_delay * 2^(k-1) in
\* download_video_with_audio too, where the count runs on across the format
\* selectors.)
C8_BackoffDoubles ==
  /\ \A k \in 1..Len(sleeps) : sleeps[k] = retry_delay * Pow2(k - 1)
  /\ SingleLoop =>
       /\ Len(sleeps) <= PyMax(max_retries, 0)
       /\ pc = "download" => Len(sleeps) = ops
       /\ (pc = "returned" /\ ops >= 1) => Len(sleeps) = ops - 1

C8_Witness ==
  /\ fn = "download_video"
  /\ pc = "returned"
  /\ dl.how = "raise"
  /\ retry_delay = 2
  /\ sleeps = <<2, 4, 8>>

\* C9: in download_transcript a TranscriptsDisabled or NoTranscriptFound raised
\* at any point of an attempt ends the call at once with an exception (no
\* further attempt, no sleep); any other error is retried until the tries are
\* used up.
C9_PermanentPropagatesAtOnce ==
  fn = "download_transcript" =>
     /\ signalled.raised => (pc = "returned" /\ dl.how = "raise")
     /\ (pc = "returned" /\ dl.how = "raise" /\ ~signalled.raised) => ops = max_retries + 1

\* the running call is over and none of its tries succeeded
Failed == pc = "returned" /\ ops >= 1 /\ ~Succeeded

\* C10 as amended: after failing on every try download_audio, download_video and
\* download_transcript raise an exception that carries the description of the
\* last error; download_video_with_audio returns False, which carries none.
C10_FinalFailureSurfaced ==
  Failed =>
     IF fn = "download_video_with_audio"
     THEN dl = Returned("False")
     ELSE dl.how = "raise" /\ last_error # NoneVal /\ dl.exc.cause = last_error

C10_Witness ==
  /\ Failed
  /\ fn = "download_audio"
  /\ ops = 3
  /\ dl.how = "raise"

\* C10 as claimed: every one of the four functions surfaces a failure that
\* carries the description of the last error.
C10_FailureCarriesLastError ==
  Failed => (dl.how = "raise" /\ dl.exc.cause = last_error)

\* ------------------------------------------------- claims on the selection

\* the preferences a recorded selection call went on with
Effective(e) == OverridePreferences(e.preferences, e.quality_override).local

\* the total score of candidate c under the preferences of call e
Total(e, c) == total_score(c, Effective(e), e.call = "audio")

\* C11: for a non-empty candidate list and max_fallback_attempts >= 1 the
\* selected candidate has the maximal total score of the list, and no
\* candidate before it in the list reaches that score.
C11_SelectsFirstBest ==
  \A n \in 1..Len(evaluations) :
     LET e == evaluations[n] IN
     (e.list # <<>> /\ e.preferences.max_fallback_attempts >= 1) =>
        \E i \in 1..Len(e.list) :
           /\ e.selected = e.list[i]
           /\ \A j \in 1..Len(e.list) : ScoreGE(Total(e, e.list[i]), Total(e, e.list[j]))
           /\ \A j \in 1..(i - 1) : ~ScoreGE(Total(e, e.list[j]), Total(e, e.list[i]))

\* a call on three candidates whose best two score the same and are not listed
\* first
C11_Witness ==
  \E n \in 1..Len(evaluations) :
     LET e == evaluations[n] IN
     /\ Len(e.list) = 3
     /\ e.preferences.max_fallback_attempts >= 1
     /\ e.selected = e.list[2]
     /\ Total(e, e.list[2]) = Total(e, e.list[3])
     /\ ~ScoreGE(Total(e, e.list[1]), Total(e, e.list[2]))

\* the score unit of the size score of call e (bytes per point)
UnitOf(e) == IF e.call = "audio" THEN AudioSizeUnit ELSE VideoSizeUnit

\* C12: for every scored candidate, audio or video, under every preferences
\* value, total score = 3 * quality score + 2 * format score + 1 * size score.
C12_TotalIsWeightedSum ==
  \A n \in 1..Len(evaluations) :
     LET e == evaluations[n] IN
     \A i \in 1..Len(e.scored) :
        LET s == e.scored[i] IN
        s.total_score = << 3 * s.quality_score + 2 * s.format_score
                             + 1 * (s.size_score \div UnitOf(e)),
                           s.size_score % UnitOf(e) >>

\* a scored candidate whose three scores differ and whose size score has a
\* fractional part
C12_Witness ==
  \E n \in 1..Len(evaluations) :
     \E i \in 1..Len(evaluations[n].scored) :
        LET s == evaluations[n].scored[i] IN
        /\ s.quality_score = 90
        /\ s.format_score = 100
        /\ s.size_score % UnitOf(evaluations[n]) # 0
        /\ s.size_score \div UnitOf(evaluations[n]) \notin {0, 100}

\* the entries of the preferred-format list of call e
Preferred(e) == Effective(e).preferred_formats

\* C13: a candidate whose extension is the N-th entry (0-indexed) of the
\* preferred-format list has format score 100 - 10 * N, and a candidate whose
\* extension is not in the list has format score 10.
C13_FormatScoreByPosition ==
  \A n \in 1..Len(evaluations) :
     LET e == evaluations[n] IN
     \A i \in 1..Len(e.scored) :
        LET s == e.scored[i] IN
        /\ \A N \in 0..(Len(Preferred(e)) - 1) :
              Preferred(e)[N + 1] = s.format.ext => s.format_score = 100 - 10 * N
        /\ (\A N \in 0..(Len(Preferred(e)) - 1) : Preferred(e)[N + 1] # s.format.ext)
              => s.format_score = 10

\* a size field is present and positive
Known(size) == size # NoSize /\ size > 0

\* C14: a candidate with neither a positive filesize nor a positive
\* filesize_approx has size score 100; otherwise its size score is
\* max(0, 100 - size_in_MB) for audio and max(0, 100 - size_in_MB / 10) for
\* video, the size being the exact filesize when that is known. (Scores are
\* kept in bytes: score * UnitOf.)
C14_SizeScore ==
  \A n \in 1..Len(evaluations) :
     LET e == evaluations[n] IN
     \A i \in 1..Len(e.scored) :
        LET s == e.scored[i]
            f == s.format
            size == IF Known(f.filesize) THEN f.filesize ELSE f.filesize_approx
        IN IF ~Known(f.filesize) /\ ~Known(f.filesize_approx)
           THEN s.size_score = 100 * UnitOf(e)
           ELSE s.size_score = PyMax(0, 100 * UnitOf(e) - size)

\* scored: a video candidate with both sizes known and different, its size
\* score strictly between 0 and 100
C14_Witness ==
  \E n \in 1..Len(evaluations) :
     \E i \in 1..Len(evaluations[n].scored) :
        LET s == evaluations[n].scored[i] IN
        /\ evaluations[n].call = "video"
        /\ Known(s.format.filesize) /\ Known(s.format.filesize_approx)
        /\ s.format.filesize # s.format.filesize_approx
        /\ s.size_score \notin {0, 100 * VideoSizeUnit}

\* the audio quality tiers and their order
TierRank(t) == CASE t = "high" -> 3 [] t = "medium" -> 2 [] t = "low" -> 1 [] OTHER -> 0

\* the tiers a quality note names
NamedTiers(note) ==
  { t \in {"high", "medium", "low"} : \E k \in 1..Len(note) : PyLower(note[k]) = t }

\* how many tiers the nearest tier named by the note is away from the preferred
\* one; -1 when the preferred tier or the note is not recognised
Mismatch(preferred, note) ==
  IF TierRank(preferred) = 0 \/ NamedTiers(note) = {} THEN -1
  ELSE CHOOSE d \in 0..2 :
         /\ \E t \in NamedTiers(note) : PyAbs(TierRank(t) - TierRank(preferred)) = d
         /\ \A t \in NamedTiers(note) : PyAbs(TierRank(t) - TierRank(preferred)) >= d

TierHeight(q) ==
  CASE q = "360p" -> 360 [] q = "480p" -> 480 [] q = "720p" -> 720
    [] q = "1080p" -> 1080 [] OTHER -> -1

\* C16: for video a candidate whose height is exactly the height of the
\* preferred resolution tier has quality score 100, whatever tier the caller
\* asked for.
C16_ExactHeightScores100 ==
  \A n \in 1..Len(evaluations) :
     LET e == evaluations[n] IN
     e.call \in {"video", "combined"} =>
        \A i \in 1..Len(e.scored) :
           e.scored[i].format.height = TierHeight(Effective(e).preferred_quality)
              => e.scored[i].quality_score = 100

\* the heights get_quality_score scores by hand under a preferred tier
HandTuned(q) ==
  CASE q = "720p" -> {720, 480, 1080, 360}
    [] q = "1080p" -> {1080, 720, 480}
    [] q = "480p" -> {480, 360, 720}
    [] OTHER -> {}

\* C17: a video height with no hand-tuned score under the preferred tier has
\* quality score max(50 - floor(|height - 720| / 100), 10); among such heights
\* a larger distance from 720 never has a larger score, and no score is below
\* 10.
C17_DistanceScore ==
  \A n \in 1..Len(evaluations) :
     LET e == evaluations[n]
         plain(s) == s.format.height \notin HandTuned(Effective(e).preferred_quality)
         dist(s) == IF s.format.height >= 720 THEN s.format.height - 720
                    ELSE 720 - s.format.height
     IN e.call \in {"video", "combined"} =>
        /\ \A i \in 1..Len(e.scored) :
              LET s == e.scored[i] IN
              /\ plain(s) => s.quality_score = PyMax(50 - (dist(s) \div 100), 10)
              /\ s.quality_score >= 10
        /\ \A i, j \in 1..Len(e.scored) :
              (plain(e.scored[i]) /\ plain(e.scored[j])
                 /\ dist(e.scored[i]) <= dist(e.scored[j]))
                 => e.scored[i].quality_score >= e.scored[j].quality_score

\* scored: a height below 720 with no hand-tuned score, above the floor
C17_Witness ==
  \E n \in 1..Len(evaluations) :
     LET e == evaluations[n] IN
     /\ e.call = "video"
     /\ \E i \in 1..Len(e.scored) :
           /\ e.scored[i].format.height = 144
           /\ e.scored[i].quality_score = 45

C19_InputsUnchanged ==
  [][ /\ formats' = formats
      /\ prefs' = prefs
      /\ pc \in {"fallback", "download", "returned"} => media_list' = media_list ]_vars

\* a selection under a quality override that differs from the preferences,
\* followed by a fallback run of two attempts
C19_Witness ==
  /\ pc = "done"
  /\ quality_override # NoneVal
  /\ prefs.preferred_quality # quality_override
  /\ Len(handed) = 2

\* the format has the codec: the field is there and is not 'none'
HasCodec(c) == c # "none" /\ c # NoneVal

\* the format is of the media kind
IsOfKind(f, which) ==
  IF which = "audio" THEN HasCodec(f.acodec) /\ ~HasCodec(f.vcodec)
  ELSE IF which = "video" THEN HasCodec(f.vcodec) /\ ~HasCodec(f.acodec)
  ELSE HasCodec(f.vcodec) /\ HasCodec(f.acodec)

\* the formats of the media kind, in input order
RECURSIVE OfKind(_, _)
OfKind(fmts, which) ==
  IF fmts = <<>> THEN <<>>
  ELSE (IF IsOfKind(Head(fmts), which) THEN <<Head(fmts)>> ELSE <<>>)
       \o OfKind(Tail(fmts), which)

\* C20: the candidate list of a media kind is exactly the input formats of that
\* kind in input order, where a format whose codec field is 'none' or missing
\* does not have that codec.
C20_ListIsFormatsOfKind ==
  \A n \in 1..Len(evaluations) :
     evaluations[n].list = OfKind(evaluations[n].formats, evaluations[n].call)

\* print_and_select_default_transcript has returned
Resolved == pc = "resolved"

\* the preferred language in force: --lang, else the first configured language
Language == ConfiguredLanguage(preferred_language, config_languages)

\* a preferred language is in force and some row carries exactly that code
HasLanguage ==
  /\ ~Falsy(Language)
  /\ \E i \in DOMAIN rows : rows[i].language_code = Language

\* the rows of the manual transcripts, in input order
ManualRows == SelectSeq(rows, LAMBDA r : ~r.is_generated)

\* C21: when at least one row has its is_default flag set, the transcript
\* returned is one of the rows and has its is_default flag set, whatever the
\* preferred language and whatever the other rows are.
C21_DefaultFlagWins ==
  (Resolved /\ \E i \in DOMAIN rows : rows[i].is_default)
    => /\ default_transcript.how = "return"
       /\ \E i \in DOMAIN rows : /\ rows[i] = default_transcript.value
                                 /\ rows[i].is_default

\* a flagged row is returned although an unflagged row carries the preferred
\* language
C21_Witness ==
  /\ Resolved
  /\ \E i \in DOMAIN rows : /\ ~rows[i].is_default
                            /\ rows[i].language_code = Language
  /\ default_transcript.value # NoTranscript
  /\ default_transcript.value.is_default
  /\ default_transcript.value.language_code # Language

\* C22: a preferred language is given and a transcript has exactly that
\* language code: the transcript returned has that language code, also when
\* manual transcripts in other languages are present. (The transcript API
\* supplies no default flag of its own: the tracks are given by language code
\* and manual / auto-generated, as in the claim's example.)
C22_PreferredLanguageBeforeManual ==
  (/\ Resolved
   /\ HasLanguage
   /\ \E i \in DOMAIN rows : ~rows[i].is_generated /\ rows[i].language_code # Language)
    => default_transcript.value.language_code = Language

\* C23: no transcript has the preferred language (or none is given) and at
\* least one manual transcript exists: the first manual transcript in input
\* order is returned.
C23_FirstManualWithoutLanguageMatch ==
  (Resolved /\ ~HasLanguage /\ ManualRows # <<>>)
    => default_transcript.value = ManualRows[1]

\* C24: no transcript has the preferred language and none is manual: the first
\* auto-generated transcript with code en, en-US or en-GB is returned if there
\* is one, and otherwise the first auto-generated transcript in input order.
C24_EnglishAutoThenFirstAuto ==
  (Resolved /\ rows # <<>> /\ ~HasLanguage /\ ManualRows = <<>>)
    => IF \E i \in DOMAIN rows : rows[i].language_code \in EnglishCodes
       THEN \E i \in DOMAIN rows :
              /\ rows[i].language_code \in EnglishCodes
              /\ \A j \in 1..(i - 1) : rows[j].language_code \notin EnglishCodes
              /\ default_transcript.value = rows[i]
       ELSE default_transcript.value = rows[1]

\* C25: with no transcript (an empty list, or a list that cannot be fetched)
\* the call returns None and raises nothing; with at least one transcript it
\* returns the row of one of them, never None.
C25_NoneOnlyWithoutTranscripts ==
  Resolved =>
    /\ default_transcript.how = "return"
    /\ IF transcript_list = ApiFailure \/ transcript_list.value = <<>>
       THEN default_transcript.value = NoTranscript
       ELSE \E i \in DOMAIN transcript_list.value :
              /\ default_transcript.value # NoTranscript
              /\ default_transcript.value.language_code
                   = transcript_list.value[i].language_code
              /\ default_transcript.value.is_generated
                   = transcript_list.value[i].is_generated

\* the last resort decided: no row is flagged, none has the preferred language
\* that was given, and the first auto-generated transcript is returned
C25_Witness ==
  /\ Resolved
  /\ Len(rows) >= 2
  /\ ~Falsy(Language)
  /\ \A i \in DOMAIN rows : ~rows[i].is_default /\ rows[i].language_code # Language
  /\ default_transcript.value = rows[1]

\* C28: end to end, when a preferred language is in force (--lang, or the first
\* configured language) and the video's transcript list holds a transcript with
\* exactly that language code, the transcript selected has that language code.
C28_LanguagePreferenceEndToEnd ==
  (/\ Resolved
   /\ transcript_list # ApiFailure
   /\ ~Falsy(Language)
   /\ \E i \in DOMAIN transcript_list.value :
        transcript_list.value[i].language_code = Language)
    => default_transcript.value.language_code = Language

\* the run of one invocation on its own: from frame f and delay d it receives
\* the answers of script, in order
RECURSIVE Alone(_, _, _)
Alone(f, d, script) ==
  IF script = <<>> THEN [frame |-> f, delay |-> d]
  ELSE LET r == AfterAnswer(f, d, Head(script))
       IN Alone(r.frame, r.delay, Tail(script))

\* the arguments the invocation with frame f was entered with
EnteredAs(f) ==
  Enter(f.kind, f.media_list, f.prefs, f.max_format_attempts, f.max_retries,
        f.retry_delay)

\* C26: invocations running interleaved do not influence each other: at every
\* moment each invocation's formats attempted, its backoff delays, its position
\* and its outcome are those of a run on its own with the same arguments and
\* the same answers of the external downloader.
C26_InvocationsIndependent ==
  pc = "concurrent" =>
    \A i \in Invocations :
      LET start == NextPass(EnteredAs(frames[i]), frames[i].retry_delay)
          alone == Alone(start.frame, start.delay, scripts[i])
      IN /\ frames[i] = alone.frame
         /\ cells[i] = alone.delay

\* two invocations are both in the middle of their runs: one has slept and
\* doubled its delay, the other has moved on to its second format attempt
C26_Witness ==
  /\ pc = "concurrent"
  /\ \E i, j \in Invocations :
       /\ i # j
       /\ frames[i].result = "running" /\ frames[j].result = "running"
       /\ frames[i].sleeps # <<>>
       /\ Len(frames[j].handed) = 2
       /\ scripts[i] # <<>> /\ scripts[j] # <<>>
       /\ cells[i] # cells[j]

\* C27: download_video_with_audio takes its four format selectors in order and
\* retries each one on its own: under every selector at most max_retries + 1
\* tries are made, and the wait before the next try under a selector is the
\* initial retry_delay doubled once per failed try under that selector.
C27_RetryWrapperPerSelector ==
  (/\ fn = "download_video_with_audio"
   /\ pc = "download"
   /\ max_retries >= 0
   /\ selector < NumSelectors)
    => /\ retry_attempt <= max_retries
       /\ ops = selector * (max_retries + 1) + retry_attempt
       /\ delay = retry_delay * Pow2(retry_attempt)

\* download_*_with_fallback has returned True or False
FallbackReturned == result \in {ReturnBool(TRUE), ReturnBool(FALSE)}

\* C29: every run of the fallback selector terminates: with n filtered
\* candidates it makes at most min(max_format_attempts, n) * (max_retries + 1)
\* external download calls, and once entered it returns True or False,
\* whatever the external downloader answers.
C29_FallbackTerminates ==
  /\ [](calls <= PyMin(max_format_attempts, Len(media_list)) * (max_retries + 1))
  /\ ((pc = "fallback") ~> FallbackReturned)

\* a run that used up every call it may make and returned False
C29_Witness ==
  /\ result = ReturnBool(FALSE)
  /\ Len(media_list) > max_format_attempts
  /\ max_retries >= 1
  /\ calls = max_format_attempts * (max_retries + 1)
  /\ calls >= 4

\* C30: job_result streams a file for a task id only if that task finished
\* successfully, and the file is the one that task produced, also when other
\* tasks completed before or after it.
C30_ResultIsTasksOwnFile ==
  \A k \in DOMAIN responses :
    responses[k].status = 200 =>
      /\ responses[k].job_id \in DOMAIN tasks
      /\ tasks[responses[k].job_id].success
      /\ responses[k].file = tasks[responses[k].job_id].video

====
